---- MODULE Spec2Model ----
(***************************************************************************)
(* Model of app.py, the Discord broadcast backend: the two request         *)
(* handlers check_bot_status and broadcast_message, the DiscordBotClient   *)
(* callbacks driven by the background connection thread, and the two       *)
(* process-wide tables active_bots and broadcast_cooldowns.                *)
(*                                                                         *)
(* Time is counted in ticks of 0.1 s, the length of the pacing sleep.      *)
(* Every handler is cut at its awaits: one action runs the code from one   *)
(* suspension point to the next.                                           *)
(***************************************************************************)
EXTENDS Integers, FiniteSets, Sequences, TLC

\* ---------------------------------------------------------------- bounds
MaxClients == 2          \* DiscordBotClient instances created in one run
Horizon == 12            \* ticks the clock may advance, one broadcast at a time
ShortHorizon == 2        \* ticks the clock may advance under concurrent broadcasts
ScopedHorizon == 1       \* ticks the clock may advance under two credentials
StartTime == 10          \* time.time() when the process starts, in ticks
MaxBroadcasts == 3       \* broadcasts that get as far as sending

\* ------------------------------------------------------ program constants
COOLDOWN_SECONDS == 1
TicksPerSecond == 10
PacingTicks == 1
CooldownTicks == COOLDOWN_SECONDS * TicksPerSecond

\* ------------------------------------------------------------ value sets
None == "None"
Tokens == {"tokA", "tokB"}
Humans == {1, 2}
Bots == {3}
ClientIds == 1..MaxClients
NoClient == 0
CheckProcs == {"s1", "s2"}
BcastProcs == {"b1", "b2"}

\* What get_user / get_channel find for a recipient id, and what the
\* awaited send does.
Lookups == {"user", "TextChannel", "DMChannel", "OtherChannel", "nothing"}
Transports == {"ok", "Forbidden", "Exception"}

\* Guild member lists and DM channel recipients the client's cache may hold.
GuildConfigs == { <<>>, <<{3}>>, <<{1, 2, 3}>>, <<{1}, {1, 2}>> }
DmConfigs == { {}, {1}, {3} }

VARIABLES
    now,                 \* time.time(), in ticks
    nclients,            \* number of DiscordBotClient instances constructed
    ctoken,              \* client -> bot_client.token
    is_ready,            \* client -> is_ready.is_set()
    cuser,               \* client -> bot_client.user (None until logged in)
    routine,             \* client -> position of the background thread
    closeReq,            \* client -> close() has been called on it
    everReady,           \* history: client -> on_ready has fired for it
    active_bots,         \* token -> client, the registered clients
    broadcast_cooldowns, \* token -> (recipient -> last_sent_timestamp)
    spc, stoken, sclient, sresult, sident,      \* check_bot_status requests
    bpc, btoken, bclient, unique_user_ids, remaining, user_id,
    current_time, last_sent_time, sent_count, failed_count,
    skipped_cooldown_count, wake, bresult,      \* broadcast_message requests
    attempted, skippedIds,   \* history: recipients a call sent to / skipped
    send_started,            \* history: when the send now awaited was begun
    ncalls,                  \* broadcasts that reached the send loop so far
    delivered,               \* history: recipients a call's send reached
    lastRecv                 \* history: token -> recipient -> when the last
                             \* delivered send was begun

clientVars == <<nclients, ctoken, is_ready, cuser, routine, closeReq, everReady>>
checkVars == <<spc, stoken, sclient, sresult, sident>>
bcastVars == <<bpc, btoken, bclient, unique_user_ids, remaining, user_id,
               current_time, last_sent_time, sent_count, failed_count,
               skipped_cooldown_count, wake, bresult, attempted, skippedIds,
               delivered, ncalls, send_started>>
vars == <<now, clientVars, active_bots, broadcast_cooldowns, checkVars,
          bcastVars, lastRecv>>

EmptyMap == [x \in {} |-> 0]

\* dict.get(key, default)
Get(d, key, default) == IF key \in DOMAIN d THEN d[key] ELSE default

\* d[key] = value
Put(d, key, value) == [k \in DOMAIN d \cup {key} |-> IF k = key THEN value ELSE d[k]]

Init ==
    /\ now = StartTime
    /\ nclients = 0
    /\ ctoken = [c \in ClientIds |-> None]
    /\ is_ready = [c \in ClientIds |-> FALSE]
    /\ cuser = [c \in ClientIds |-> None]
    /\ routine = [c \in ClientIds |-> "unstarted"]
    /\ closeReq = [c \in ClientIds |-> FALSE]
    /\ everReady = [c \in ClientIds |-> FALSE]
    /\ active_bots = EmptyMap
    /\ broadcast_cooldowns = EmptyMap
    /\ spc = [p \in CheckProcs |-> "idle"]
    /\ stoken = [p \in CheckProcs |-> None]
    /\ sclient = [p \in CheckProcs |-> NoClient]
    /\ sresult = [p \in CheckProcs |-> None]
    /\ sident = [p \in CheckProcs |-> None]
    /\ bpc = [p \in BcastProcs |-> "idle"]
    /\ btoken = [p \in BcastProcs |-> None]
    /\ bclient = [p \in BcastProcs |-> NoClient]
    /\ unique_user_ids = [p \in BcastProcs |-> {}]
    /\ remaining = [p \in BcastProcs |-> {}]
    /\ user_id = [p \in BcastProcs |-> 0]
    /\ current_time = [p \in BcastProcs |-> 0]
    /\ last_sent_time = [p \in BcastProcs |-> 0]
    /\ sent_count = [p \in BcastProcs |-> 0]
    /\ failed_count = [p \in BcastProcs |-> 0]
    /\ skipped_cooldown_count = [p \in BcastProcs |-> 0]
    /\ wake = [p \in BcastProcs |-> 0]
    /\ bresult = [p \in BcastProcs |-> None]
    /\ attempted = [p \in BcastProcs |-> {}]
    /\ skippedIds = [p \in BcastProcs |-> {}]
    /\ lastRecv = [t \in Tokens |-> EmptyMap]
    /\ delivered = [p \in BcastProcs |-> {}]
    /\ ncalls = 0
    /\ send_started = [p \in BcastProcs |-> 0]

\* ------------------------------------------------------------------ clock
\* The clock read by time.time() and awaited by asyncio.sleep moves on.
\* A tick is 0.1 s: it passes while handlers wait (for a request, in the
\* awaited send, in the pacing sleep), not between two lines of the loop
\* that have no await between them.
Tick(limit) ==
    /\ now < StartTime + limit
    /\ \A p \in BcastProcs : bpc[p] # "loop"
    /\ now' = now + 1
    /\ UNCHANGED <<clientVars, active_bots, broadcast_cooldowns, checkVars,
                   bcastVars, lastRecv>>

\* ------------------------------------------- background connection thread
\* bot_client.start(bot_token) running in its own thread: the login either
\* succeeds (the client learns its user) or raises LoginFailure inside the
\* thread, which ends the thread and reaches nobody else.
Login(c, accepted) ==
    /\ routine[c] = "starting"
    /\ routine' = [routine EXCEPT ![c] = IF accepted THEN "loggedin" ELSE "loginfailed"]
    /\ cuser' = [cuser EXCEPT ![c] = IF accepted THEN ctoken[c] ELSE None]
    /\ UNCHANGED <<now, nclients, ctoken, is_ready, closeReq, everReady, active_bots,
                   broadcast_cooldowns, checkVars, bcastVars, lastRecv>>

on_connect(c) ==
    /\ routine[c] \in {"loggedin", "disconnected"}
    /\ routine' = [routine EXCEPT ![c] = "connected"]
    /\ is_ready' = [is_ready EXCEPT ![c] = FALSE]
    /\ UNCHANGED <<now, nclients, ctoken, cuser, closeReq, everReady, active_bots,
                   broadcast_cooldowns, checkVars, bcastVars, lastRecv>>

on_ready(c) ==
    /\ routine[c] = "connected"
    /\ routine' = [routine EXCEPT ![c] = "ready"]
    /\ is_ready' = [is_ready EXCEPT ![c] = TRUE]
    /\ everReady' = [everReady EXCEPT ![c] = TRUE]
    /\ UNCHANGED <<now, nclients, ctoken, cuser, closeReq, active_bots,
                   broadcast_cooldowns, checkVars, bcastVars, lastRecv>>

on_disconnect(c) ==
    /\ routine[c] \in {"connected", "ready"}
    /\ routine' = [routine EXCEPT ![c] = "disconnected"]
    /\ is_ready' = [is_ready EXCEPT ![c] = FALSE]
    /\ UNCHANGED <<now, nclients, ctoken, cuser, closeReq, everReady, active_bots,
                   broadcast_cooldowns, checkVars, bcastVars, lastRecv>>

\* ------------------------------------------------------- check_bot_status
\* The three 200 answers of check_bot_status (lines 109, 137, 149).
SuccessMessages == {"AlreadyLoggedIn", "LoggedIn", "LoggedInAfterTimeout"}

\* The response of check_bot_status for a client that counts as logged in.
StatusSuccess(p, tok, c, message) ==
    /\ spc' = [spc EXCEPT ![p] = "done"]
    /\ stoken' = [stoken EXCEPT ![p] = tok]
    /\ sclient' = [sclient EXCEPT ![p] = c]
    /\ sresult' = [sresult EXCEPT ![p] = message]
    /\ sident' = [sident EXCEPT ![p] = cuser[c]]

StatusError(p, tok, c, kind) ==
    /\ spc' = [spc EXCEPT ![p] = "done"]
    /\ stoken' = [stoken EXCEPT ![p] = tok]
    /\ sclient' = [sclient EXCEPT ![p] = c]
    /\ sresult' = [sresult EXCEPT ![p] = kind]
    /\ sident' = [sident EXCEPT ![p] = None]

\* Mutant of AlreadyReady: the early return is never taken.
AlreadyReadyNever(tok) == FALSE

\* Line 105: the bot is already active and ready.
AlreadyReady(tok) ==
    /\ tok \in DOMAIN active_bots
    /\ is_ready[active_bots[tok]]

\* A request arrives with no botToken.
CheckMissingToken(p) ==
    /\ spc[p] \in {"idle", "done"}
    /\ StatusError(p, None, NoClient, "MissingArgument")
    /\ UNCHANGED <<now, clientVars, active_bots, broadcast_cooldowns,
                   bcastVars, lastRecv>>

\* Lines 104-113: the registered client is ready, answer from it.
CheckAlready(p, tok) ==
    /\ spc[p] \in {"idle", "done"}
    /\ AlreadyReady(tok)
    /\ StatusSuccess(p, tok, active_bots[tok], "AlreadyLoggedIn")
    /\ UNCHANGED <<now, clientVars, active_bots, broadcast_cooldowns,
                   bcastVars, lastRecv>>

\* Lines 115-133: construct a client, start its thread, begin the wait.
\* threadStarts = FALSE: Thread.start() raises, caught at line 165.
CheckLogin(p, tok, threadStarts) ==
    /\ spc[p] \in {"idle", "done"}
    /\ ~AlreadyReady(tok)
    /\ nclients < MaxClients
    /\ LET c == nclients + 1 IN
        /\ nclients' = c
        /\ ctoken' = [ctoken EXCEPT ![c] = tok]
        /\ IF threadStarts
             THEN /\ routine' = [routine EXCEPT ![c] = "starting"]
                  /\ spc' = [spc EXCEPT ![p] = "waiting"]
                  /\ stoken' = [stoken EXCEPT ![p] = tok]
                  /\ sclient' = [sclient EXCEPT ![p] = c]
                  /\ sresult' = [sresult EXCEPT ![p] = None]
                  /\ sident' = [sident EXCEPT ![p] = None]
             ELSE /\ routine' = routine
                  /\ StatusError(p, tok, c, "UnexpectedError")
    /\ UNCHANGED <<now, is_ready, cuser, closeReq, everReady, active_bots,
                   broadcast_cooldowns, bcastVars, lastRecv>>

\* Mutant of Register: the table is rebound to one holding this client only.
RegisterAlone(ab, tok, c) == Put(EmptyMap, tok, c)

\* Lines 134 and 146: active_bots[bot_token] = bot_client.
Register(ab, tok, c) == Put(ab, tok, c)

\* Lines 133-141: the wait on is_ready returns before the timeout.
CheckReady(p) ==
    /\ spc[p] = "waiting"
    /\ is_ready[sclient[p]]
    /\ active_bots' = Register(active_bots, stoken[p], sclient[p])
    /\ StatusSuccess(p, stoken[p], sclient[p], "LoggedIn")
    /\ UNCHANGED <<now, clientVars, broadcast_cooldowns, bcastVars, lastRecv>>

\* Mutant of CloseRequested: the timed-out client is never told to close.
CloseSkipped(cr, c) == cr

\* Line 157: bot_client.close() is called.
CloseRequested(cr, c) == [cr EXCEPT ![c] = TRUE]

\* Mutant of CheckTimeout: the wait on is_ready has no timeout.
CheckTimeoutNever(p) ==
    /\ spc[p] = "waiting"
    /\ FALSE
    /\ UNCHANGED vars

\* Lines 142-157: the 10 s timeout fires; the flag is looked at once more,
\* and a client that is still not ready is told to close.
CheckTimeout(p) ==
    /\ spc[p] = "waiting"
    /\ IF is_ready[sclient[p]]
         THEN /\ active_bots' = Register(active_bots, stoken[p], sclient[p])
              /\ StatusSuccess(p, stoken[p], sclient[p], "LoggedInAfterTimeout")
              /\ closeReq' = closeReq
         ELSE /\ closeReq' = CloseRequested(closeReq, sclient[p])
              /\ spc' = [spc EXCEPT ![p] = "closing"]
              /\ UNCHANGED <<active_bots, stoken, sclient, sresult, sident>>
    /\ UNCHANGED <<now, nclients, ctoken, is_ready, cuser, routine, everReady,
                   broadcast_cooldowns, bcastVars, lastRecv>>

\* Lines 156-160: close() returns or raises (swallowed); the answer is the
\* timeout error either way.  A close that raised leaves the thread alone.
CheckClosed(p, raised) ==
    /\ spc[p] = "closing"
    /\ routine' = [routine EXCEPT ![sclient[p]] =
                      IF raised \/ @ = "loginfailed" THEN @ ELSE "closed"]
    /\ StatusError(p, stoken[p], sclient[p], "Timeout")
    /\ UNCHANGED <<now, nclients, ctoken, is_ready, cuser, closeReq, everReady,
                   active_bots, broadcast_cooldowns, bcastVars, lastRecv>>

\* ------------------------------------------- DiscordBotClient send helper
\* send_broadcast_message: True only when get_user or get_channel finds a
\* user, a TextChannel or a DMChannel and the awaited send raises nothing.
send_broadcast_message(lookup, transport) ==
    IF lookup = "user" THEN transport = "ok"
    ELSE IF lookup \in {"TextChannel", "DMChannel"} THEN transport = "ok"
    ELSE FALSE

\* Every value send_broadcast_message can return.
SendResults == {send_broadcast_message(l, t) : l \in Lookups, t \in Transports}

\* ------------------------------------------------------ broadcast_message
\* Mutant of BotUsable: the ready flag is not looked at.
BotUsableIgnoresFlag(tok) == tok \in DOMAIN active_bots

\* Line 184: the bot is registered and its ready flag is set.
BotUsable(tok) ==
    /\ tok \in DOMAIN active_bots
    /\ is_ready[active_bots[tok]]

\* Mutant of InitCooldowns: the map is created afresh on every call.
InitCooldownsReset(cd, tok) == Put(cd, tok, EmptyMap)

\* Lines 191-193: the per-token cooldown map is created when missing.
InitCooldowns(cd, tok) == IF tok \in DOMAIN cd THEN cd ELSE Put(cd, tok, EmptyMap)

\* Mutant of Discover: members and DM recipients are taken bots and all.
DiscoverWithBots(guilds, dms) ==
    (UNION {guilds[i] : i \in DOMAIN guilds}) \cup dms

\* intents.members as set at line 120.
IntentsMembers == TRUE

\* Lines 198-216: the ids of the non-bot members of every guild, and of the
\* non-bot recipients of the DM channels, in one set.
Discover(guilds, dms) ==
    (IF IntentsMembers
       THEN UNION {guilds[i] \ Bots : i \in DOMAIN guilds}
       ELSE {})
    \cup (dms \ Bots)

\* Every recipient set the discovery can come up with.
DiscoverResults == {Discover(g, d) : g \in GuildConfigs, d \in DmConfigs}

\* Line 227: the cooldown test.
Eligible(ct, last) == (ct - last) >= CooldownTicks

\* Mutant of RecordSent: the entry is keyed by the recipient alone and
\* written into every credential's map.
RecordSentEveryToken(cd, tok, u, ct, success) ==
    IF success THEN [t \in DOMAIN cd |-> Put(cd[t], u, ct)] ELSE cd

\* Mutant of RecordSent: the entry is written whatever the send returned.
RecordSentAlways(cd, tok, u, ct, success) == Put(cd, tok, Put(cd[tok], u, ct))

\* Lines 229-233: the cooldown table after a send that returned `success`.
RecordSent(cd, tok, u, ct, success) ==
    IF success THEN Put(cd, tok, Put(cd[tok], u, ct)) ELSE cd

\* Mutant of AfterSendPc: a failed send ends the handler.
AfterSendPcAbort(success) == IF success THEN "sleeping" ELSE "done"

\* Lines 229-234: whatever the send returned, the loop goes on to the
\* pacing sleep and then to the next recipient.
AfterSendPc(success) == "sleeping"

BcastAnswer(p, tok, c, kind) ==
    /\ bpc' = [bpc EXCEPT ![p] = "done"]
    /\ btoken' = [btoken EXCEPT ![p] = tok]
    /\ bclient' = [bclient EXCEPT ![p] = c]
    /\ bresult' = [bresult EXCEPT ![p] = kind]
    /\ unique_user_ids' = [unique_user_ids EXCEPT ![p] = {}]
    /\ remaining' = [remaining EXCEPT ![p] = {}]
    /\ sent_count' = [sent_count EXCEPT ![p] = 0]
    /\ failed_count' = [failed_count EXCEPT ![p] = 0]
    /\ skipped_cooldown_count' = [skipped_cooldown_count EXCEPT ![p] = 0]
    /\ attempted' = [attempted EXCEPT ![p] = {}]
    /\ skippedIds' = [skippedIds EXCEPT ![p] = {}]
    /\ delivered' = [delivered EXCEPT ![p] = {}]
    /\ UNCHANGED <<user_id, current_time, last_sent_time, wake, ncalls,
                   send_started>>

\* Lines 175-180: botToken or message is missing.
BroadcastMissing(p) ==
    /\ bpc[p] \in {"idle", "done"}
    /\ BcastAnswer(p, None, NoClient, "MissingArgument")
    /\ UNCHANGED <<now, clientVars, active_bots, broadcast_cooldowns,
                   checkVars, lastRecv>>

\* Lines 182-221: look the bot up, refuse when it is not usable, create the
\* cooldown map, discover the recipients, refuse when there are none, take
\* current_time.
BroadcastStart(p, tok, ids) ==
    /\ bpc[p] \in {"idle", "done"}
    /\ (BotUsable(tok) /\ ids # {}) => ncalls < MaxBroadcasts
    /\ IF ~BotUsable(tok)
         THEN /\ BcastAnswer(p, tok, Get(active_bots, tok, NoClient), "NotReady")
              /\ UNCHANGED broadcast_cooldowns
         ELSE /\ broadcast_cooldowns' = InitCooldowns(broadcast_cooldowns, tok)
              /\ IF ids = {}
                   THEN BcastAnswer(p, tok, active_bots[tok], "NoRecipients")
                   ELSE /\ bpc' = [bpc EXCEPT ![p] = "loop"]
                        /\ btoken' = [btoken EXCEPT ![p] = tok]
                        /\ bclient' = [bclient EXCEPT ![p] = active_bots[tok]]
                        /\ bresult' = [bresult EXCEPT ![p] = None]
                        /\ unique_user_ids' = [unique_user_ids EXCEPT ![p] = ids]
                        /\ remaining' = [remaining EXCEPT ![p] = ids]
                        /\ sent_count' = [sent_count EXCEPT ![p] = 0]
                        /\ failed_count' = [failed_count EXCEPT ![p] = 0]
                        /\ skipped_cooldown_count' = [skipped_cooldown_count EXCEPT ![p] = 0]
                        /\ attempted' = [attempted EXCEPT ![p] = {}]
                        /\ skippedIds' = [skippedIds EXCEPT ![p] = {}]
                        /\ delivered' = [delivered EXCEPT ![p] = {}]
                        /\ ncalls' = ncalls + 1
                        /\ current_time' = [current_time EXCEPT ![p] = now]
                        /\ UNCHANGED <<user_id, last_sent_time, wake, send_started>>
    /\ UNCHANGED <<now, clientVars, active_bots, checkVars, lastRecv>>

\* Mutant of SkippedCount: a skipped recipient is not counted.
SkippedCountKept(n) == n

\* Line 236: skipped_cooldown_count += 1.
SkippedCount(n) == n + 1

\* Lines 224-228 and 235-237: the loop takes the next recipient, reads its
\* cooldown entry and either skips it or starts the awaited send.
BroadcastNext(p, u) ==
    /\ bpc[p] = "loop"
    /\ u \in remaining[p]
    /\ remaining' = [remaining EXCEPT ![p] = @ \ {u}]
    /\ user_id' = [user_id EXCEPT ![p] = u]
    /\ last_sent_time' = [last_sent_time EXCEPT ![p] =
                            Get(broadcast_cooldowns[btoken[p]], u, 0)]
    /\ IF Eligible(current_time[p], Get(broadcast_cooldowns[btoken[p]], u, 0))
         THEN /\ bpc' = [bpc EXCEPT ![p] = "sending"]
              /\ attempted' = [attempted EXCEPT ![p] = @ \cup {u}]
              /\ send_started' = [send_started EXCEPT ![p] = now]
              /\ UNCHANGED <<skipped_cooldown_count, skippedIds>>
         ELSE /\ skipped_cooldown_count' = [skipped_cooldown_count EXCEPT ![p] = SkippedCount(@)]
              /\ skippedIds' = [skippedIds EXCEPT ![p] = @ \cup {u}]
              /\ UNCHANGED <<bpc, attempted, send_started>>
    /\ UNCHANGED <<now, clientVars, active_bots, broadcast_cooldowns, checkVars,
                   btoken, bclient, unique_user_ids, current_time, sent_count,
                   failed_count, wake, bresult, delivered, ncalls, lastRecv>>

\* Lines 228-234: the send returns; count it, record the cooldown on
\* success, and start the pacing sleep.  The locals user_id and
\* last_sent_time are not read again before the loop reassigns them.
BroadcastSent(p, success) ==
    /\ bpc[p] = "sending"
    /\ broadcast_cooldowns' = RecordSent(broadcast_cooldowns, btoken[p],
                                         user_id[p], current_time[p], success)
    /\ sent_count' = [sent_count EXCEPT ![p] = IF success THEN @ + 1 ELSE @]
    /\ failed_count' = [failed_count EXCEPT ![p] = IF success THEN @ ELSE @ + 1]
    /\ delivered' = [delivered EXCEPT ![p] = IF success THEN @ \cup {user_id[p]} ELSE @]
    /\ lastRecv' = IF success
                     THEN [lastRecv EXCEPT ![btoken[p]] = Put(@, user_id[p], send_started[p])]
                     ELSE lastRecv
    /\ bpc' = [bpc EXCEPT ![p] = AfterSendPc(success)]
    /\ wake' = [wake EXCEPT ![p] = now + PacingTicks]
    /\ user_id' = [user_id EXCEPT ![p] = 0]
    /\ last_sent_time' = [last_sent_time EXCEPT ![p] = 0]
    /\ send_started' = [send_started EXCEPT ![p] = 0]
    /\ UNCHANGED <<now, clientVars, active_bots, checkVars, btoken, bclient,
                   unique_user_ids, remaining, current_time,
                   skipped_cooldown_count, bresult, attempted, skippedIds,
                   ncalls>>

\* Line 234: asyncio.sleep(0.1) is over.
BroadcastWake(p) ==
    /\ bpc[p] = "sleeping"
    /\ now >= wake[p]
    /\ bpc' = [bpc EXCEPT ![p] = "loop"]
    /\ wake' = [wake EXCEPT ![p] = 0]
    /\ UNCHANGED <<now, clientVars, active_bots, broadcast_cooldowns, checkVars,
                   btoken, bclient, unique_user_ids, remaining, user_id,
                   current_time, last_sent_time, sent_count, failed_count,
                   skipped_cooldown_count, bresult, attempted,
                   skippedIds, delivered, ncalls, send_started, lastRecv>>

\* Lines 239-245: every recipient has been handled; answer with the counts.
\* The handler's locals end with it.
BroadcastReturn(p) ==
    /\ bpc[p] = "loop"
    /\ remaining[p] = {}
    /\ bpc' = [bpc EXCEPT ![p] = "done"]
    /\ bresult' = [bresult EXCEPT ![p] = "success"]
    /\ user_id' = [user_id EXCEPT ![p] = 0]
    /\ current_time' = [current_time EXCEPT ![p] = 0]
    /\ last_sent_time' = [last_sent_time EXCEPT ![p] = 0]
    /\ UNCHANGED <<now, clientVars, active_bots, broadcast_cooldowns, checkVars,
                   btoken, bclient, unique_user_ids, remaining,
                   sent_count, failed_count,
                   skipped_cooldown_count, wake, attempted,
                   skippedIds, delivered, ncalls, send_started, lastRecv>>

\* ---------------------------------------------------------- specification
\* The background connection threads.
ThreadSteps ==
    \/ \E c \in ClientIds, accepted \in BOOLEAN : Login(c, accepted)
    \/ \E c \in ClientIds : on_connect(c)
    \/ \E c \in ClientIds : on_ready(c)
    \/ \E c \in ClientIds : on_disconnect(c)

\* The check_bot_status requests handled by the workers `procs`.
CheckSteps(procs) ==
    \/ \E p \in procs : CheckMissingToken(p)
    \/ \E p \in procs, tok \in Tokens : CheckAlready(p, tok)
    \/ \E p \in procs, tok \in Tokens, st \in BOOLEAN : CheckLogin(p, tok, st)
    \/ \E p \in procs : CheckReady(p)
    \/ \E p \in procs : CheckTimeout(p)
    \/ \E p \in procs, raised \in BOOLEAN : CheckClosed(p, raised)

\* The broadcast_message requests handled by the workers `procs`.
BroadcastSteps(procs) ==
    \/ \E p \in procs : BroadcastMissing(p)
    \/ \E p \in procs, tok \in Tokens, ids \in DiscoverResults :
          BroadcastStart(p, tok, ids)
    \/ \E p \in procs, u \in Humans : BroadcastNext(p, u)
    \/ \E p \in procs, ok \in SendResults : BroadcastSent(p, ok)
    \/ \E p \in procs : BroadcastWake(p)
    \/ \E p \in procs : BroadcastReturn(p)

\* The whole program: every thread and every request handler.
Next ==
    \/ Tick(Horizon)
    \/ ThreadSteps
    \/ CheckSteps(CheckProcs)
    \/ BroadcastSteps(BcastProcs)

Spec == Init /\ [][Next]_vars

\* Next restricted to the session half: the connection threads and
\* concurrent check_bot_status requests, from the program's start.
NextSession == ThreadSteps \/ CheckSteps(CheckProcs)

SpecSession == Init /\ [][NextSession]_vars

\* Next restricted to the connection threads and one check_bot_status
\* request after another.
NextSessionSolo == ThreadSteps \/ CheckSteps({"s1"})

\* The scheduling the handler relies on: the timer of wait_for (line 133)
\* fires for a call that is still waiting, and the awaited
\* bot_client.close() (line 157) returns or raises.
FairSession ==
    \A p \in CheckProcs :
        /\ WF_vars(CheckTimeout(p))
        /\ WF_vars(\E raised \in BOOLEAN : CheckClosed(p, raised))

SpecSessionFair == Init /\ [][NextSessionSolo]_vars /\ FairSession

\* The state after check_bot_status("tokA") has logged client 1 in:
\* CheckLogin, Login, on_connect, on_ready, CheckReady.
InitBroadcast ==
    /\ now = StartTime
    /\ nclients = 1
    /\ ctoken = [c \in ClientIds |-> IF c = 1 THEN "tokA" ELSE None]
    /\ is_ready = [c \in ClientIds |-> c = 1]
    /\ cuser = [c \in ClientIds |-> IF c = 1 THEN "tokA" ELSE None]
    /\ routine = [c \in ClientIds |-> IF c = 1 THEN "ready" ELSE "unstarted"]
    /\ closeReq = [c \in ClientIds |-> FALSE]
    /\ everReady = [c \in ClientIds |-> c = 1]
    /\ active_bots = Put(EmptyMap, "tokA", 1)
    /\ broadcast_cooldowns = EmptyMap
    /\ spc = [p \in CheckProcs |-> IF p = "s1" THEN "done" ELSE "idle"]
    /\ stoken = [p \in CheckProcs |-> IF p = "s1" THEN "tokA" ELSE None]
    /\ sclient = [p \in CheckProcs |-> IF p = "s1" THEN 1 ELSE NoClient]
    /\ sresult = [p \in CheckProcs |-> IF p = "s1" THEN "LoggedIn" ELSE None]
    /\ sident = [p \in CheckProcs |-> IF p = "s1" THEN "tokA" ELSE None]
    /\ bpc = [p \in BcastProcs |-> "idle"]
    /\ btoken = [p \in BcastProcs |-> None]
    /\ bclient = [p \in BcastProcs |-> NoClient]
    /\ unique_user_ids = [p \in BcastProcs |-> {}]
    /\ remaining = [p \in BcastProcs |-> {}]
    /\ user_id = [p \in BcastProcs |-> 0]
    /\ current_time = [p \in BcastProcs |-> 0]
    /\ last_sent_time = [p \in BcastProcs |-> 0]
    /\ sent_count = [p \in BcastProcs |-> 0]
    /\ failed_count = [p \in BcastProcs |-> 0]
    /\ skipped_cooldown_count = [p \in BcastProcs |-> 0]
    /\ wake = [p \in BcastProcs |-> 0]
    /\ bresult = [p \in BcastProcs |-> None]
    /\ attempted = [p \in BcastProcs |-> {}]
    /\ skippedIds = [p \in BcastProcs |-> {}]
    /\ lastRecv = [t \in Tokens |-> EmptyMap]
    /\ delivered = [p \in BcastProcs |-> {}]
    /\ ncalls = 0
    /\ send_started = [p \in BcastProcs |-> 0]

\* The broadcast half: the clock, broadcast_message, and the logged-in
\* client dropping and regaining its connection.
\* The logged-in clients dropping and regaining their connections.
SessionEvents ==
    \/ \E c \in ClientIds : on_connect(c)
    \/ \E c \in ClientIds : on_ready(c)
    \/ \E c \in ClientIds : on_disconnect(c)

\* Next restricted to the broadcast half: concurrent broadcasts over a
\* short stretch of time, while the session comes and goes.
NextBroadcast == Tick(ShortHorizon) \/ SessionEvents \/ BroadcastSteps(BcastProcs)

SpecBroadcast == InitBroadcast /\ [][NextBroadcast]_vars

\* Next restricted to one broadcast after another, over more than a
\* cooldown window.
NextCooldown == Tick(Horizon) \/ BroadcastSteps({"b1"})

SpecCooldown == InitBroadcast /\ [][NextCooldown]_vars

\* The state after check_bot_status has logged in client 1 for "tokA" and
\* client 2 for "tokB", one request each.
InitScoped ==
    /\ now = StartTime
    /\ nclients = 2
    /\ ctoken = [c \in ClientIds |-> IF c = 1 THEN "tokA" ELSE IF c = 2 THEN "tokB" ELSE None]
    /\ is_ready = [c \in ClientIds |-> c \in {1, 2}]
    /\ cuser = [c \in ClientIds |-> IF c = 1 THEN "tokA" ELSE IF c = 2 THEN "tokB" ELSE None]
    /\ routine = [c \in ClientIds |-> IF c \in {1, 2} THEN "ready" ELSE "unstarted"]
    /\ closeReq = [c \in ClientIds |-> FALSE]
    /\ everReady = [c \in ClientIds |-> c \in {1, 2}]
    /\ active_bots = Put(Put(EmptyMap, "tokA", 1), "tokB", 2)
    /\ broadcast_cooldowns = EmptyMap
    /\ spc = [p \in CheckProcs |-> "done"]
    /\ stoken = [p \in CheckProcs |-> IF p = "s1" THEN "tokA" ELSE "tokB"]
    /\ sclient = [p \in CheckProcs |-> IF p = "s1" THEN 1 ELSE 2]
    /\ sresult = [p \in CheckProcs |-> "LoggedIn"]
    /\ sident = [p \in CheckProcs |-> IF p = "s1" THEN "tokA" ELSE "tokB"]
    /\ bpc = [p \in BcastProcs |-> "idle"]
    /\ btoken = [p \in BcastProcs |-> None]
    /\ bclient = [p \in BcastProcs |-> NoClient]
    /\ unique_user_ids = [p \in BcastProcs |-> {}]
    /\ remaining = [p \in BcastProcs |-> {}]
    /\ user_id = [p \in BcastProcs |-> 0]
    /\ current_time = [p \in BcastProcs |-> 0]
    /\ last_sent_time = [p \in BcastProcs |-> 0]
    /\ sent_count = [p \in BcastProcs |-> 0]
    /\ failed_count = [p \in BcastProcs |-> 0]
    /\ skipped_cooldown_count = [p \in BcastProcs |-> 0]
    /\ wake = [p \in BcastProcs |-> 0]
    /\ bresult = [p \in BcastProcs |-> None]
    /\ attempted = [p \in BcastProcs |-> {}]
    /\ skippedIds = [p \in BcastProcs |-> {}]
    /\ lastRecv = [t \in Tokens |-> EmptyMap]
    /\ delivered = [p \in BcastProcs |-> {}]
    /\ ncalls = 0
    /\ send_started = [p \in BcastProcs |-> 0]

\* Next restricted to concurrent broadcasts under two logged-in
\* credentials, over a short stretch of time.
NextScoped == Tick(ScopedHorizon) \/ BroadcastSteps(BcastProcs)

SpecScoped == InitScoped /\ [][NextScoped]_vars

\* ================================================================ claims
\* The spec's lifecycleState, read off a client's fields: the code keeps no
\* state field, only the ready flag, the thread and the close request.
lifecycleState(c) ==
    IF is_ready[c] THEN "Ready"
    ELSE IF closeReq[c] THEN "Failed"
    ELSE IF routine[c] = "unstarted" THEN "Disconnected"
    ELSE "Connecting"

\* The credential has a registered client whose ready flag is set.
RegisteredReady(tok) ==
    /\ tok \in DOMAIN active_bots
    /\ is_ready[active_bots[tok]]

\* Worker p's variables changed in this step.
CheckMoved(p) ==
    <<spc[p], stoken[p], sclient[p], sresult[p], sident[p]>>
        # <<spc'[p], stoken'[p], sclient'[p], sresult'[p], sident'[p]>>

\* ---------------------------------------------------------------- C5
\* C5 (as claimed): concurrent check_bot_status calls for the same
\* credential wait on the same client instance; the second caller never
\* holds a client of its own.
C5_ConcurrentCallersShareClient ==
    \A p, q \in CheckProcs :
        (/\ spc[p] = "waiting"
         /\ spc[q] = "waiting"
         /\ stoken[p] = stoken[q])
        => sclient[p] = sclient[q]

\* ---------------------------------------------------------------- C6
\* C6: a check_bot_status call that started a client whose handshake never
\* completed has, once it has answered, answered Timeout; that client has
\* been asked to close and is Failed, not Connecting.
C6_TimeoutClosesAndFails ==
    \A p \in CheckProcs :
        (/\ spc[p] = "done"
         /\ sclient[p] # NoClient
         /\ routine[sclient[p]] # "unstarted"
         /\ ~everReady[sclient[p]])
        => /\ sresult[p] = "Timeout"
           /\ closeReq[sclient[p]]
           /\ lifecycleState(sclient[p]) = "Failed"

C6_Witness ==
    \E p \in CheckProcs :
        /\ spc[p] = "done"
        /\ sresult[p] = "Timeout"
        /\ ~everReady[sclient[p]]
        /\ routine[sclient[p]] = "closed"

\* ---------------------------------------------------------------- C7
\* C7 (as claimed): when the connection thread was refused at login, the
\* call that started it answers InvalidCredential.
C7_RejectedLoginIsInvalidCredential ==
    \A p \in CheckProcs :
        (/\ spc[p] = "done"
         /\ sclient[p] # NoClient
         /\ routine[sclient[p]] = "loginfailed")
        => sresult[p] = "InvalidCredential"

\* ---------------------------------------------------------------- C9
\* C9: while the credential's registered client is ready, no step gives the
\* credential another client or starts a connection thread for it, and every
\* check_bot_status call for it answers at once with that client's identity,
\* leaving the registry and every client as they were.
C9_ReadyCallIsIdempotent ==
    [][\A tok \in Tokens :
         RegisteredReady(tok) =>
           /\ \A c \in ClientIds : ctoken'[c] = tok => ctoken[c] = tok
           /\ \A p \in CheckProcs :
                (/\ spc[p] \in {"idle", "done"}
                 /\ CheckMoved(p)
                 /\ stoken'[p] = tok)
                => /\ spc'[p] = "done"
                   /\ sresult'[p] = "AlreadyLoggedIn"
                   /\ sident'[p] = cuser[active_bots[tok]]
                   /\ sclient'[p] = active_bots[tok]
                   /\ active_bots' = active_bots
                   /\ clientVars' = clientVars]_vars

\* A second call in a row has been answered from the ready client.
C9_Witness ==
    \E p, q \in CheckProcs :
        /\ p # q
        /\ sresult[p] = "AlreadyLoggedIn"
        /\ sresult[q] = "AlreadyLoggedIn"
        /\ stoken[p] = stoken[q]
        /\ RegisteredReady(stoken[p])

\* Broadcast worker p is between the checks and the answer.
InFlight(p) == bpc[p] \in {"loop", "sending", "sleeping"}

\* Worker p's request variables changed in this step.
BcastMoved(p) ==
    <<bpc[p], btoken[p], bresult[p], unique_user_ids[p]>>
        # <<bpc'[p], btoken'[p], bresult'[p], unique_user_ids'[p]>>

\* Worker p's awaited send returned in this step.
SendReturned(p) == bpc[p] = "sending" /\ bpc'[p] # "sending"

\* ---------------------------------------------------------------- C1
\* C1: a broadcast_message call for a credential with no registered client,
\* or whose registered client's ready flag is not set, is answered NotReady
\* in that same step, with no send attempted and no table changed.
C1_NotReadyRefused ==
    [][\A p \in BcastProcs, tok \in Tokens :
         (/\ bpc[p] \in {"idle", "done"}
          /\ BcastMoved(p)
          /\ btoken'[p] = tok
          /\ ~RegisteredReady(tok))
         => /\ bpc'[p] = "done"
            /\ bresult'[p] = "NotReady"
            /\ attempted'[p] = {}
            /\ sent_count'[p] = 0
            /\ failed_count'[p] = 0
            /\ lastRecv' = lastRecv
            /\ broadcast_cooldowns' = broadcast_cooldowns]_vars

\* A call was refused for a registered client whose readiness a disconnect
\* had cleared, and another for a credential never registered.
C1_Witness ==
    \E p, q \in BcastProcs :
        /\ bresult[p] = "NotReady"
        /\ btoken[p] \in DOMAIN active_bots
        /\ routine[active_bots[btoken[p]]] = "disconnected"
        /\ bresult[q] = "NotReady"
        /\ btoken[q] \notin DOMAIN active_bots

\* ---------------------------------------------------------------- C2
\* C2 (as claimed): a recipient that received a message at time t is not
\* sent to by a broadcast attempted at t' with 0 <= t' - t < cooldownWindow,
\* and is not skipped by one attempted at t' >= t + cooldownWindow.
C2_CooldownFromReceipt ==
    \A p \in BcastProcs :
        /\ (/\ bpc[p] = "sending"
            /\ user_id[p] \in DOMAIN lastRecv[btoken[p]])
           => ~(/\ 0 <= current_time[p] - lastRecv[btoken[p]][user_id[p]]
                /\ current_time[p] - lastRecv[btoken[p]][user_id[p]] < CooldownTicks)
        /\ \A u \in skippedIds[p] :
              InFlight(p) =>
                 /\ u \in DOMAIN lastRecv[btoken[p]]
                 /\ current_time[p] < lastRecv[btoken[p]][u] + CooldownTicks

\* ---------------------------------------------------------------- C3
\* C3: when a send fails, failed_count goes up by one and no cooldown entry
\* changes; if the recipient's entry is still what this call read, the
\* recipient passes the cooldown test of any broadcast attempted from now on.
C3_FailedSendLeavesCooldown ==
    [][\A p \in BcastProcs :
         (SendReturned(p) /\ delivered'[p] = delivered[p])
         => /\ failed_count'[p] = failed_count[p] + 1
            /\ sent_count'[p] = sent_count[p]
            /\ broadcast_cooldowns' = broadcast_cooldowns
            /\ (Get(broadcast_cooldowns'[btoken[p]], user_id[p], 0) = last_sent_time[p]
                  => now - Get(broadcast_cooldowns'[btoken[p]], user_id[p], 0)
                        >= CooldownTicks)]_vars

\* One call's only send, to recipient 1, failed at the first tick and left
\* no entry; a call begun on the next tick is sending to recipient 1 again.
C3_Witness ==
    \E p, q \in BcastProcs :
        /\ now = StartTime + 1
        /\ bpc[q] = "done"
        /\ unique_user_ids[q] = {1}
        /\ failed_count[q] = 1
        /\ bpc[p] = "sending"
        /\ btoken[p] = btoken[q]
        /\ current_time[p] = StartTime + 1
        /\ user_id[p] = 1
        /\ 1 \notin DOMAIN broadcast_cooldowns[btoken[p]]

\* ---------------------------------------------------------------- C4
\* C4 (as claimed): two broadcasts in flight on the same credential, both
\* begun less than one cooldown window ago, have never both delivered to
\* the same recipient.
C4_NoDoubleSendWithinWindow ==
    \A p, q \in BcastProcs :
        (/\ p # q
         /\ InFlight(p)
         /\ InFlight(q)
         /\ btoken[p] = btoken[q]
         /\ now - current_time[p] < CooldownTicks
         /\ now - current_time[q] < CooldownTicks)
        => delivered[p] \cap delivered[q] = {}

\* ---------------------------------------------------------------- C8
\* C8 (as claimed): a broadcast answered NoRecipients leaves the cooldown
\* table exactly as it was.
C8_NoRecipientsStoreIdentical ==
    [][\A p \in BcastProcs :
         (BcastMoved(p) /\ bresult'[p] = "NoRecipients")
         => broadcast_cooldowns' = broadcast_cooldowns]_vars

\* C8 (amended): a broadcast answered NoRecipients attempts no send and
\* leaves every cooldown entry as it was; the one change it may make is to
\* create the credential's own map, empty, when it did not exist.
C8_NoRecipientsEntriesKept ==
    [][\A p \in BcastProcs :
         (BcastMoved(p) /\ bresult'[p] = "NoRecipients")
         => /\ bpc'[p] = "done"
            /\ attempted'[p] = {}
            /\ lastRecv' = lastRecv
            /\ DOMAIN broadcast_cooldowns' = DOMAIN broadcast_cooldowns \cup {btoken'[p]}
            /\ \A t \in DOMAIN broadcast_cooldowns :
                  broadcast_cooldowns'[t] = broadcast_cooldowns[t]
            /\ (btoken'[p] \notin DOMAIN broadcast_cooldowns
                  => broadcast_cooldowns'[btoken'[p]] = EmptyMap)]_vars

\* A call found no recipients for a credential that already has entries.
C8_Witness ==
    \E p \in BcastProcs :
        /\ bresult[p] = "NoRecipients"
        /\ btoken[p] \in DOMAIN broadcast_cooldowns
        /\ broadcast_cooldowns[btoken[p]] # EmptyMap

\* ---------------------------------------------------------------- C10
\* C10: a broadcast that passed the checks keeps going after a failed send:
\* while it runs, every candidate is either still to come, attempted or
\* skipped, and it is only ever finished with none still to come.
C10_EveryRecipientHandled ==
    \A p \in BcastProcs :
        /\ (InFlight(p) \/ (bpc[p] = "done" /\ unique_user_ids[p] # {}))
           => attempted[p] \cup skippedIds[p] \cup remaining[p] = unique_user_ids[p]
        /\ (bpc[p] = "done" /\ unique_user_ids[p] # {})
           => /\ remaining[p] = {}
              /\ bresult[p] = "success"

\* A broadcast to two recipients has returned although both sends failed.
C10_Witness ==
    \E p \in BcastProcs :
        /\ bpc[p] = "done"
        /\ bresult[p] = "success"
        /\ unique_user_ids[p] = {1, 2}
        /\ failed_count[p] = 2

\* Client c's connection thread has been started and has neither ended
\* nor been closed.
Live(c) == routine[c] \in {"starting", "loggedin", "connected", "ready", "disconnected"}

\* ---------------------------------------------------------------- C11
\* C11 (as claimed): at every reachable state a credential has at most one
\* live connection: no two clients holding the same token both have a
\* started, unclosed connection thread.
C11_OneLiveConnectionPerCredential ==
    \A c, d \in ClientIds :
        (/\ c # d
         /\ Live(c)
         /\ Live(d))
        => ctoken[c] # ctoken[d]

\* ---------------------------------------------------------------- C12
\* C12 (as claimed): a disconnect reported while the client is ready (and
\* not being closed) clears readiness and leaves the session Connecting,
\* not Failed; and a
\* check_bot_status call made for a credential whose registered client is
\* in that state waits on that same client, constructing no other.
C12_DisconnectedSessionIsReused ==
    [][/\ \A c \in ClientIds :
             (is_ready[c] /\ ~closeReq[c] /\ routine'[c] = "disconnected")
             => /\ ~is_ready'[c]
                /\ lifecycleState(c)' = "Connecting"
       /\ \A p \in CheckProcs, tok \in Tokens :
             (/\ spc[p] \in {"idle", "done"}
              /\ CheckMoved(p)
              /\ stoken'[p] = tok
              /\ tok \in DOMAIN active_bots
              /\ routine[active_bots[tok]] = "disconnected")
             => /\ sclient'[p] = active_bots[tok]
                /\ nclients' = nclients]_vars

\* ---------------------------------------------------------------- C13
\* C13 (as claimed): when the wait of a check_bot_status call resolves with
\* the client's ready flag set, the call answers success with the identity
\* and the client is registered and not asked to close; and no call
\* answers Timeout for a client whose ready flag is set as it answers.
C13_ReadyAtBoundaryIsSuccess ==
    [][\A p \in CheckProcs :
         /\ (/\ spc[p] = "waiting"
             /\ spc'[p] # "waiting"
             /\ is_ready[sclient[p]])
            => /\ spc'[p] = "done"
               /\ sresult'[p] \in SuccessMessages
               /\ sident'[p] = cuser[sclient[p]]
               /\ sident'[p] # None
               /\ stoken[p] \in DOMAIN active_bots'
               /\ active_bots'[stoken[p]] = sclient[p]
               /\ ~closeReq'[sclient[p]]
         /\ (/\ spc[p] # "done"
             /\ spc'[p] = "done"
             /\ sresult'[p] = "Timeout")
            => ~is_ready'[sclient'[p]]]_vars

\* ---------------------------------------------------------------- C14
\* C14 (as claimed): at every reachable state a client's user (the
\* session's identity) is set if and only if the session is Ready: it is
\* not set before the first ready event and no longer set once a
\* disconnect has cleared readiness.
C14_IdentityIffReady ==
    \A c \in ClientIds :
        (cuser[c] # None) <=> (lifecycleState(c) = "Ready")

SendAttempts(p) ==
    sent_count[p] + failed_count[p] + (IF bpc[p] = "sending" THEN 1 ELSE 0)

\* ---------------------------------------------------------------- C16
\* C16: within one broadcast_message call no bot account is a candidate,
\* and every candidate is handled once: it is still to come, or was sent
\* to, or was skipped, never two of these, and the number of sends begun is
\* the number of distinct recipients sent to.
C16_EachRecipientOnce ==
    \A p \in BcastProcs :
        (InFlight(p) \/ (bpc[p] = "done" /\ bresult[p] = "success"))
        => /\ unique_user_ids[p] \cap Bots = {}
           /\ attempted[p] \cap skippedIds[p] = {}
           /\ remaining[p] \cap (attempted[p] \cup skippedIds[p]) = {}
           /\ attempted[p] \cup skippedIds[p] \cup remaining[p] \subseteq unique_user_ids[p]
           /\ SendAttempts(p) = Cardinality(attempted[p])
           /\ skipped_cooldown_count[p] = Cardinality(skippedIds[p])

\* A broadcast has returned after one send to each of its two candidates;
\* that candidate set is what discovery yields for a cache in which
\* recipient 1 is in two guilds and in a DM channel, and for a cache whose
\* guild holds a bot next to the two recipients.
C16_Witness ==
    \E p \in BcastProcs :
        /\ bpc[p] = "done"
        /\ bresult[p] = "success"
        /\ sent_count[p] = 2
        /\ attempted[p] = {1, 2}
        /\ \E g \in GuildConfigs, d \in DmConfigs :
              /\ Cardinality({i \in DOMAIN g : 1 \in g[i]}) >= 2
              /\ 1 \in d
              /\ Discover(g, d) = unique_user_ids[p]
        /\ \E g \in GuildConfigs :
              /\ \E i \in DOMAIN g : g[i] \cap Bots # {}
              /\ Discover(g, {}) = unique_user_ids[p]

\* ---------------------------------------------------------------- C17
\* C17 (as claimed): a cooldown entry changes only in the step in which a
\* send to that recipient under that credential returns success, and the
\* entry is the time of that most recent successful send: it is never
\* earlier than the moment that send was begun.
C17_EntryIsTimeOfLastSend ==
    [][/\ \A tok \in DOMAIN broadcast_cooldowns', u \in Humans :
             (/\ u \in DOMAIN broadcast_cooldowns'[tok]
              /\ Get(Get(broadcast_cooldowns, tok, EmptyMap), u, -1)
                    # broadcast_cooldowns'[tok][u])
             => \E p \in BcastProcs :
                   /\ SendReturned(p)
                   /\ btoken[p] = tok
                   /\ user_id[p] = u
                   /\ u \in delivered'[p]
       /\ \A tok \in DOMAIN broadcast_cooldowns', u \in Humans :
             u \in DOMAIN broadcast_cooldowns'[tok]
             => /\ u \in DOMAIN lastRecv'[tok]
                /\ broadcast_cooldowns'[tok][u] >= lastRecv'[tok][u]]_vars

\* Broadcast worker p took a step of its handler.
BcastActed(p) ==
    <<bpc[p], btoken[p], bresult[p], unique_user_ids[p], remaining[p]>>
        # <<bpc'[p], btoken'[p], bresult'[p], unique_user_ids'[p], remaining'[p]>>

\* ---------------------------------------------------------------- C18
\* C18: a step of a broadcast under one credential leaves the cooldown map
\* of every other credential as it was (present or absent, entry by entry),
\* and whether it sends to or skips a recipient is decided by the entry
\* under its own credential alone, whatever entry another credential holds
\* for the same recipient.
C18_CooldownsScopedPerCredential ==
    [][\A p \in BcastProcs :
         BcastActed(p) =>
           /\ \A other \in Tokens \ {btoken'[p]} :
                 /\ (other \in DOMAIN broadcast_cooldowns')
                       = (other \in DOMAIN broadcast_cooldowns)
                 /\ other \in DOMAIN broadcast_cooldowns
                       => broadcast_cooldowns'[other] = broadcast_cooldowns[other]
                 /\ lastRecv'[other] = lastRecv[other]
           /\ \A u \in remaining[p] \ remaining'[p] :
                 (u \in attempted'[p])
                    = (current_time[p] - Get(broadcast_cooldowns[btoken[p]], u, 0)
                          >= CooldownTicks)]_vars

\* One credential holds a fresh entry for recipient 1, the other holds
\* none, and a broadcast under the other credential, begun inside the
\* first one's cooldown window, is sending to recipient 1.
C18_Witness ==
    \E p \in BcastProcs, a, b \in Tokens :
        /\ a # b
        /\ a \in DOMAIN broadcast_cooldowns
        /\ 1 \in DOMAIN broadcast_cooldowns[a]
        /\ btoken[p] = b
        /\ bpc[p] = "sending"
        /\ user_id[p] = 1
        /\ 1 \notin DOMAIN broadcast_cooldowns[b]
        /\ current_time[p] >= broadcast_cooldowns[a][1]
        /\ current_time[p] - broadcast_cooldowns[a][1] < CooldownTicks

\* ---------------------------------------------------------------- C19
\* C19: for every broadcast_message call that has returned its counts,
\* sent_count + failed_count + skipped_cooldown_count is the number of
\* distinct candidates discovered, and none of the three is negative.
C19_CountsSumToCandidates ==
    \A p \in BcastProcs :
        (bpc[p] = "done" /\ bresult[p] = "success")
        => /\ sent_count[p] + failed_count[p] + skipped_cooldown_count[p]
                 = Cardinality(unique_user_ids[p])
           /\ sent_count[p] >= 0
           /\ failed_count[p] >= 0
           /\ skipped_cooldown_count[p] >= 0

\* A broadcast to two candidates has returned with one of them skipped for
\* cooldown and the send to the other failed.
C19_Witness ==
    \E p \in BcastProcs :
        /\ bpc[p] = "done"
        /\ bresult[p] = "success"
        /\ Cardinality(unique_user_ids[p]) = 2
        /\ sent_count[p] = 0
        /\ failed_count[p] = 1
        /\ skipped_cooldown_count[p] = 1

\* The answers check_bot_status can give besides success (lines 102, 160,
\* 164, 167).
ErrorKinds == {"Timeout", "InvalidCredential", "UnexpectedError", "MissingArgument"}

\* Worker p's call has returned, with an identity or with an error.
Returned(p) ==
    /\ spc[p] = "done"
    /\ \/ sresult[p] \in SuccessMessages /\ sident[p] # None
       \/ sresult[p] \in ErrorKinds /\ sident[p] = None

\* ---------------------------------------------------------------- C20
\* C20: every check_bot_status call that is waiting for readiness or for
\* the close of its client eventually returns, with an identity or with one
\* of the errors, whatever the connection thread does, given that the
\* timeout timer fires and the close call comes back.
C20_EveryCallReturns ==
    \A p \in CheckProcs :
        (spc[p] \in {"waiting", "closing"}) ~> Returned(p)

\* A call has returned although the connection thread of its client had
\* ended at a refused login, after an earlier call had timed out on a
\* client that logged in and never became ready.
C20_Witness ==
    \E p \in CheckProcs, c \in ClientIds :
        /\ Returned(p)
        /\ sresult[p] = "Timeout"
        /\ routine[sclient[p]] = "loginfailed"
        /\ c # sclient[p]
        /\ closeReq[c]
        /\ cuser[c] # None
        /\ ~everReady[c]

====
